---- MODULE Spec2Model ----
(***************************************************************************)
(* Model of main.c of the scroller demo: setup, the frame loop (event      *)
(* drain, update, draw, frame limiter) and teardown.                       *)
(*                                                                         *)
(* Number representation:                                                  *)
(*   scrollX      float, always a multiple of 0.5  -> integer half pixels  *)
(*   star z/speed float, multiples of 1/200        -> integer 1/200 units  *)
(*   time_counter float, += 0.05f per tick         -> integer 0.05 units   *)
(*   SDL_GetTicks Uint32 milliseconds -> [hi, lo], two 16-bit limbs, all   *)
(*                arithmetic modulo 2^32                                   *)
(* The stars' x and y are written by the code but never decide control     *)
(* flow; they are not part of the state.                                   *)
(***************************************************************************)
EXTENDS Integers, Sequences, FiniteSets, TLC

\* ---- program constants ----
SCREEN_WIDTH == 800
STAR_SPREAD == 512
FrameBudget == 16
Limb == 65536
ZScale == 200
SpeedBase == 40
XScale == 2
ScrollStep == 3
NotDeclared == -1

\* ---- bounds of the model ----
NumStars == 2
MaxFrames == 3
MaxScrollFrames == 810
MaxStarFrames == 6
MaxLimiterFrames == 4
MaxEvents == 2

\* ---- input samples ----
\* rand() % STAR_SPREAD and rand() % 100 outcomes used by init_stars()
RandZ == {0, 1, 2, 511}
RandSpeed == {0, 50, 99}
MainRandZ == {0, 1}
MainRandSpeed == {99}
\* widths of the rendered text surface
TextWidths == {0, 1, 400}
MainTextWidths == {400}
\* milliseconds that pass between two readings of the clock
WorkDurations == {0, 7, 16, 25}
MainWorkDurations == {0, 20}
SteadyWork == {16}
\* clock values at which a run of the frame loop is observed
ClockStarts == {[hi |-> 0, lo |-> 0], [hi |-> Limb - 1, lo |-> Limb - 10]}
EventTypes == {"SDL_QUIT", "SDL_KEYDOWN"}

VARIABLES
  pc,            \* position in main()
  exitCode,      \* value returned by main(), NotDeclared while running
  messages,      \* number of printf() diagnostics written
  sdl, ttf, mix, \* subsystems: "off", "on", "quit"
  window, renderer, font, music,   \* global handles: "null" or "live"
  musicPlaying,
  textTexture,   \* "null", "live", "destroyed"
  released,      \* how often each resource was freed
  cleanupCalls,
  stars, scrollX, textW, time_counter,
  is_running, eventQueue, posted, quitPolled,
  blendMode,     \* draw blend mode of the renderer
  trace,         \* steps executed in the current tick
  frame,         \* ticks started
  now, last_tick, current_tick,
  work,          \* ms that passed in the current tick before SDL_GetTicks()
  delayCalled,   \* the frame limiter called SDL_Delay() in the current tick
  delayArg       \* and this is the Uint32 it passed

resVars == <<sdl, ttf, mix, window, renderer, font, music, musicPlaying,
             textTexture, released, cleanupCalls>>
exitVars == <<exitCode, messages>>
simVars == <<stars, scrollX, textW, time_counter>>
evVars == <<is_running, eventQueue, posted, quitPolled>>
clockVars == <<now, last_tick, current_tick, work, delayCalled, delayArg>>
vars == <<pc, exitVars, resVars, simVars, evVars, blendMode, trace, frame, clockVars>>

Resources == {"music", "font", "renderer", "window", "texture"}

\* ---- pure helpers ----

\* Uint32 values and arithmetic
U32(n) == [hi |-> n \div Limb, lo |-> n % Limb]

Add32(a, b) ==
  LET l == a.lo + b.lo
  IN  [hi |-> (a.hi + b.hi + l \div Limb) % Limb, lo |-> l % Limb]

Sub32(a, b) ==
  LET l == a.lo - b.lo
      borrow == IF l < 0 THEN 1 ELSE 0
  IN  [hi |-> (a.hi - b.hi - borrow + 2 * Limb) % Limb, lo |-> (l + Limb) % Limb]

Less32(a, b) == a.hi < b.hi \/ (a.hi = b.hi /\ a.lo < b.lo)

\* the argument of SDL_Delay(): 16 - (current_tick - last_tick)
DelayForSwapped(diff) == Sub32(diff, U32(FrameBudget))
DelayFor(diff) == Sub32(U32(FrameBudget), diff)

\* one star of init_stars(): z = rand() % STAR_SPREAD, speed = r/200 + 0.2
NewStar(rz, rs) == [z |-> rz * ZScale, speed |-> rs + SpeedBase]

\* all results of init_stars() for the given rand() outcomes
StarInitStates(Zs, Rs) ==
  [1..NumStars -> {NewStar(rz, rs) : rz \in Zs, rs \in Rs}]

\* body of the loop of update_stars() for one star
UpdateStarStrict(s) ==
  LET z1 == s.z - s.speed
  IN  IF z1 < 0 THEN [s EXCEPT !.z = STAR_SPREAD * ZScale]
      ELSE [s EXCEPT !.z = z1]
UpdateStar(s) ==
  LET z1 == s.z - s.speed
  IN  IF z1 <= 0 THEN [s EXCEPT !.z = STAR_SPREAD * ZScale]
      ELSE [s EXCEPT !.z = z1]

update_stars(st) == [i \in DOMAIN st |-> UpdateStar(st[i])]

\* scrollX -= 1.5f; if (scrollX < -textW) scrollX = SCREEN_WIDTH;
ScrollStepInclusive(x, w) ==
  LET x1 == x - ScrollStep
  IN  IF x1 <= -(w * XScale) THEN SCREEN_WIDTH * XScale ELSE x1
ScrollStepCarry(x, w) ==
  LET x1 == x - ScrollStep
  IN  IF x1 < -(w * XScale) THEN SCREEN_WIDTH * XScale + (x1 + w * XScale) ELSE x1
ScrollStepFn(x, w) ==
  LET x1 == x - ScrollStep
  IN  IF x1 < -(w * XScale) THEN SCREEN_WIDTH * XScale ELSE x1

\* if (e.type == SDL_QUIT) is_running = 0;
HandleEventAny(e, r) == 0
HandleEvent(e, r) == IF e = "SDL_QUIT" THEN 0 ELSE r

\* statement order of the body of while (is_running)
LoopOrderSwapped ==
  << "poll", "update_stars", "update_scroll", "update_time", "clear",
     "render_stars", "render_scroller", "raster_blend", "raster_fill",
     "raster_restore", "present", "get_ticks", "frame_limit" >>
LoopOrder ==
  << "poll", "update_stars", "update_scroll", "update_time", "clear",
     "render_stars", "raster_blend", "raster_fill", "raster_restore",
     "render_scroller", "present", "get_ticks", "frame_limit" >>

After(l) ==
  LET i == CHOOSE k \in 1..Len(LoopOrder) : LoopOrder[k] = l
  IN  IF i = Len(LoopOrder) THEN "loop_test" ELSE LoopOrder[i + 1]

\* ---- initial states ----

Init ==
  /\ pc = "init_sdl"
  /\ exitCode = NotDeclared
  /\ messages = 0
  /\ sdl = "off" /\ ttf = "off" /\ mix = "off"
  /\ window = "null" /\ renderer = "null" /\ font = "null" /\ music = "null"
  /\ musicPlaying = FALSE
  /\ textTexture = "null"
  /\ released = [r \in Resources |-> 0]
  /\ cleanupCalls = 0
  /\ stars = [i \in 1..NumStars |-> [z |-> 0, speed |-> 0]]
  /\ scrollX = 0
  /\ textW = 0
  /\ time_counter = 0
  /\ is_running = NotDeclared
  /\ eventQueue = << >>
  /\ posted = 0
  /\ quitPolled = FALSE
  /\ blendMode = "NONE"
  /\ trace = << >>
  /\ frame = 0
  /\ now = U32(0) /\ last_tick = U32(0) /\ current_tick = U32(0)
  /\ work = 0
  /\ delayCalled = FALSE /\ delayArg = U32(0)

\* the state at the first test of while (is_running), setup having succeeded
LoopHead(st, w, t) ==
  /\ pc = "loop_test"
  /\ exitCode = NotDeclared
  /\ messages = 0
  /\ sdl = "on" /\ ttf = "on" /\ mix = "on"
  /\ window = "live" /\ renderer = "live" /\ font = "live" /\ music = "live"
  /\ musicPlaying = TRUE
  /\ textTexture = "live"
  /\ released = [r \in Resources |-> 0]
  /\ cleanupCalls = 0
  /\ stars = st
  /\ scrollX = SCREEN_WIDTH * XScale
  /\ textW = w
  /\ time_counter = 0
  /\ is_running = 1
  /\ eventQueue = << >>
  /\ posted = 0
  /\ quitPolled = FALSE
  /\ blendMode = "NONE"
  /\ trace = << >>
  /\ frame = 0
  /\ now = t /\ last_tick = t /\ current_tick = t
  /\ work = 0
  /\ delayCalled = FALSE /\ delayArg = U32(0)

\* one result of init_stars(), for the runs that are not about the stars
SampleStars == [i \in 1..NumStars |-> NewStar(0, 99)]

InitScroll == \E w \in TextWidths : LoopHead(SampleStars, w, U32(0))

\* the state before Mix_PlayMusic() and init_stars(), the three init
\* functions having succeeded
InitStarField ==
  /\ pc = "prepare"
  /\ exitCode = NotDeclared
  /\ messages = 0
  /\ sdl = "on" /\ ttf = "on" /\ mix = "on"
  /\ window = "live" /\ renderer = "live" /\ font = "live" /\ music = "live"
  /\ musicPlaying = FALSE
  /\ textTexture = "null"
  /\ released = [r \in Resources |-> 0]
  /\ cleanupCalls = 0
  /\ stars = [i \in 1..NumStars |-> [z |-> 0, speed |-> 0]]
  /\ scrollX = 0
  /\ textW = 0
  /\ time_counter = 0
  /\ is_running = NotDeclared
  /\ eventQueue = << >>
  /\ posted = 0
  /\ quitPolled = FALSE
  /\ blendMode = "NONE"
  /\ trace = << >>
  /\ frame = 0
  /\ now = U32(0) /\ last_tick = U32(0) /\ current_tick = U32(0)
  /\ work = 0
  /\ delayCalled = FALSE /\ delayArg = U32(0)

InitLimiter == \E t \in ClockStarts : LoopHead(SampleStars, 400, t)

\* ---- setup ----

InitSdl ==
  /\ pc = "init_sdl"
  /\ \E o \in {"ok", "no_sdl", "no_window", "no_renderer"} :
       /\ sdl' = IF o = "no_sdl" THEN "off" ELSE "on"
       /\ window' = IF o \in {"ok", "no_renderer"} THEN "live" ELSE "null"
       /\ renderer' = IF o = "ok" THEN "live" ELSE "null"
       /\ IF o = "ok"
          THEN pc' = "init_font" /\ UNCHANGED exitVars
          ELSE pc' = "done" /\ exitCode' = 1 /\ messages' = messages + 1
  /\ UNCHANGED <<ttf, mix, font, music, musicPlaying, textTexture, released,
                 cleanupCalls, simVars, evVars, blendMode, trace, frame, clockVars>>

InitFont ==
  /\ pc = "init_font"
  /\ \E o \in {"ok", "no_ttf", "no_font"} :
       /\ ttf' = IF o = "no_ttf" THEN "off" ELSE "on"
       /\ font' = IF o = "ok" THEN "live" ELSE "null"
       /\ now' = IF o = "no_font" THEN Add32(now, U32(5000)) ELSE now
       /\ IF o = "ok"
          THEN pc' = "init_audio" /\ UNCHANGED exitVars
          ELSE /\ pc' = "done" /\ exitCode' = 1
               /\ messages' = messages + (IF o = "no_font" THEN 2 ELSE 1)
  /\ UNCHANGED <<sdl, mix, window, renderer, music, musicPlaying, textTexture,
                 released, cleanupCalls, simVars, evVars, blendMode, trace, frame,
                 last_tick, current_tick, work, delayCalled, delayArg>>

InitAudio ==
  /\ pc = "init_audio"
  /\ \E o \in {"ok", "no_audio", "no_music"} :
       /\ mix' = IF o = "no_audio" THEN "off" ELSE "on"
       /\ music' = IF o = "ok" THEN "live" ELSE "null"
       /\ now' = IF o = "no_music" THEN Add32(now, U32(5000)) ELSE now
       /\ IF o = "ok"
          THEN pc' = "prepare" /\ UNCHANGED exitVars
          ELSE /\ pc' = "done" /\ exitCode' = 1
               /\ messages' = messages + (IF o = "no_music" THEN 2 ELSE 1)
  /\ UNCHANGED <<sdl, ttf, window, renderer, font, musicPlaying, textTexture,
                 released, cleanupCalls, simVars, evVars, blendMode, trace, frame,
                 last_tick, current_tick, work, delayCalled, delayArg>>

\* Mix_PlayMusic(music, -1); init_stars(); scrollX = SCREEN_WIDTH;
Prepare(Zs, Rs) ==
  /\ pc = "prepare"
  /\ musicPlaying' = TRUE
  /\ stars' \in StarInitStates(Zs, Rs)
  /\ scrollX' = SCREEN_WIDTH * XScale
  /\ pc' = "create_text"
  /\ UNCHANGED <<exitVars, sdl, ttf, mix, window, renderer, font, music,
                 textTexture, released, cleanupCalls, textW, time_counter,
                 evVars, blendMode, trace, frame, clockVars>>

\* create_text_texture() and the test of its result
CreateTextTexture(Ws) ==
  /\ pc = "create_text"
  /\ \E o \in {"ok", "no_surface", "no_texture"} : \E w \in Ws :
       /\ textW' = IF o = "no_surface" THEN textW ELSE w
       /\ textTexture' = IF o = "ok" THEN "live" ELSE "null"
       /\ IF o = "ok"
          THEN pc' = "loop_init" /\ UNCHANGED messages
          ELSE pc' = "cleanup_fail" /\ messages' = messages + 1
  /\ UNCHANGED <<exitCode, sdl, ttf, mix, window, renderer, font, music,
                 musicPlaying, released, cleanupCalls, stars, scrollX,
                 time_counter, evVars, blendMode, trace, frame, clockVars>>

\* int is_running = 1; Uint32 last_tick = SDL_GetTicks();
LoopInit(W) ==
  /\ pc = "loop_init"
  /\ is_running' = 1
  /\ \E w \in W : now' = Add32(now, U32(w))
  /\ last_tick' = now'
  /\ pc' = "loop_test"
  /\ UNCHANGED <<exitVars, resVars, simVars, eventQueue, posted, quitPolled,
                 blendMode, trace, frame, current_tick, work,
                 delayCalled, delayArg>>

\* ---- the frame loop ----

\* while (is_running), condition true
LoopEnter(maxF) ==
  /\ pc = "loop_test"
  /\ is_running = 1
  /\ frame < maxF
  /\ frame' = frame + 1
  /\ trace' = << >>
  /\ work' = 0 /\ delayCalled' = FALSE /\ delayArg' = U32(0)
  /\ pc' = LoopOrder[1]
  /\ UNCHANGED <<exitVars, resVars, simVars, evVars, blendMode,
                 now, last_tick, current_tick>>

\* while (is_running), condition false
LoopExit ==
  /\ pc = "loop_test"
  /\ is_running = 0
  /\ pc' = "destroy_texture"
  /\ UNCHANGED <<exitVars, resVars, simVars, evVars, blendMode, trace, frame,
                 clockVars>>

\* the platform queues an event
PostEvent ==
  /\ sdl = "on"
  /\ pc # "done"
  /\ posted < MaxEvents
  /\ \E e \in EventTypes : eventQueue' = Append(eventQueue, e)
  /\ posted' = posted + 1
  /\ UNCHANGED <<pc, exitVars, resVars, simVars, is_running, quitPolled,
                 blendMode, trace, frame, clockVars>>

\* SDL_PollEvent(&e) != 0, body of the inner loop
PollEvent ==
  /\ pc = "poll"
  /\ eventQueue # << >>
  /\ is_running' = HandleEvent(Head(eventQueue), is_running)
  /\ quitPolled' = (quitPolled \/ Head(eventQueue) = "SDL_QUIT")
  /\ eventQueue' = Tail(eventQueue)
  /\ UNCHANGED <<pc, exitVars, resVars, simVars, posted, blendMode, trace,
                 frame, clockVars>>

\* SDL_PollEvent(&e) == 0
PollEmpty ==
  /\ pc = "poll"
  /\ eventQueue = << >>
  /\ trace' = Append(trace, "poll")
  /\ pc' = After("poll")
  /\ UNCHANGED <<exitVars, resVars, simVars, evVars, blendMode, frame, clockVars>>

UpdateStars ==
  /\ pc = "update_stars"
  /\ stars' = update_stars(stars)
  /\ trace' = Append(trace, "update_stars")
  /\ pc' = After("update_stars")
  /\ UNCHANGED <<exitVars, resVars, scrollX, textW, time_counter, evVars,
                 blendMode, frame, clockVars>>

UpdateScroll ==
  /\ pc = "update_scroll"
  /\ scrollX' = ScrollStepFn(scrollX, textW)
  /\ trace' = Append(trace, "update_scroll")
  /\ pc' = After("update_scroll")
  /\ UNCHANGED <<exitVars, resVars, stars, textW, time_counter, evVars,
                 blendMode, frame, clockVars>>

UpdateTime ==
  /\ pc = "update_time"
  /\ time_counter' = time_counter + 1
  /\ trace' = Append(trace, "update_time")
  /\ pc' = After("update_time")
  /\ UNCHANGED <<exitVars, resVars, stars, scrollX, textW, evVars,
                 blendMode, frame, clockVars>>

\* a step of the loop body that only draws
Draw(l) ==
  /\ pc = l
  /\ trace' = Append(trace, l)
  /\ pc' = After(l)
  /\ UNCHANGED <<exitVars, resVars, simVars, evVars, blendMode, frame, clockVars>>

Clear == Draw("clear")
RenderStars == Draw("render_stars")
RenderScroller == Draw("render_scroller")
Present == Draw("present")

\* render_raster_bar()
SetBlend(l, m) ==
  /\ pc = l
  /\ blendMode' = m
  /\ trace' = Append(trace, l)
  /\ pc' = After(l)
  /\ UNCHANGED <<exitVars, resVars, simVars, evVars, frame, clockVars>>

RasterBlend == SetBlend("raster_blend", "BLEND")
RasterFill == Draw("raster_fill")
RasterRestoreLeak == SetBlend("raster_restore", blendMode)
RasterRestore == SetBlend("raster_restore", "NONE")

\* Uint32 current_tick = SDL_GetTicks();
GetTicks(W) ==
  /\ pc = "get_ticks"
  /\ \E w \in W :
       /\ now' = Add32(now, U32(w))
       /\ work' = w
  /\ current_tick' = now'
  /\ trace' = Append(trace, "get_ticks")
  /\ pc' = After("get_ticks")
  /\ UNCHANGED <<exitVars, resVars, simVars, evVars, blendMode, frame,
                 last_tick, delayCalled, delayArg>>

\* if (current_tick - last_tick < 16) SDL_Delay(...); last_tick = current_tick;
FrameLimit ==
  /\ pc = "frame_limit"
  /\ LET diff == Sub32(current_tick, last_tick)
     IN  IF Less32(diff, U32(FrameBudget))
         THEN /\ delayCalled' = TRUE
              /\ delayArg' = DelayFor(diff)
              /\ now' = Add32(now, delayArg')
         ELSE /\ delayCalled' = FALSE
              /\ delayArg' = U32(0)
              /\ UNCHANGED now
  /\ last_tick' = current_tick
  /\ trace' = Append(trace, "frame_limit")
  /\ pc' = After("frame_limit")
  /\ UNCHANGED <<exitVars, resVars, simVars, evVars, blendMode, frame,
                 current_tick, work>>

\* ---- teardown ----

DestroyTexture ==
  /\ pc = "destroy_texture"
  /\ textTexture' = "destroyed"
  /\ released' = [released EXCEPT !["texture"] = @ + 1]
  /\ pc' = "cleanup"
  /\ UNCHANGED <<exitVars, sdl, ttf, mix, window, renderer, font, music,
                 musicPlaying, cleanupCalls, simVars, evVars, blendMode, trace,
                 frame, clockVars>>

Freed(h) == IF h = "live" THEN 1 ELSE 0

\* cleanup(), then return 1 (texture failure) or return 0 (loop left)
Cleanup ==
  /\ pc \in {"cleanup", "cleanup_fail"}
  /\ released' = [released EXCEPT !["music"] = @ + Freed(music),
                                  !["font"] = @ + Freed(font),
                                  !["renderer"] = @ + Freed(renderer),
                                  !["window"] = @ + Freed(window)]
  /\ music' = "null" /\ font' = "null" /\ renderer' = "null" /\ window' = "null"
  /\ musicPlaying' = FALSE
  /\ mix' = "quit" /\ ttf' = "quit" /\ sdl' = "quit"
  /\ cleanupCalls' = cleanupCalls + 1
  /\ exitCode' = IF pc = "cleanup" THEN 0 ELSE 1
  /\ pc' = "done"
  /\ UNCHANGED <<messages, textTexture, simVars, evVars, blendMode, trace,
                 frame, clockVars>>

\* ---- specifications ----

Body(W) ==
  \/ PollEmpty
  \/ UpdateStars
  \/ UpdateScroll
  \/ UpdateTime
  \/ Clear
  \/ RenderStars
  \/ RasterBlend
  \/ RasterFill
  \/ RasterRestore
  \/ RenderScroller
  \/ Present
  \/ GetTicks(W)
  \/ FrameLimit

Program ==
  \/ InitSdl
  \/ InitFont
  \/ InitAudio
  \/ Prepare(MainRandZ, MainRandSpeed)
  \/ CreateTextTexture(MainTextWidths)
  \/ LoopInit(MainWorkDurations)
  \/ LoopEnter(MaxFrames)
  \/ PollEvent
  \/ Body(MainWorkDurations)
  \/ LoopExit
  \/ DestroyTexture
  \/ Cleanup

Next == Program \/ PostEvent

Spec == Init /\ [][Next]_vars

\* the program is always scheduled; the platform need not post events
FairSpec == Spec /\ WF_vars(Program)

\* the loop running with no event arriving
NextScroll == LoopEnter(MaxScrollFrames) \/ Body(SteadyWork)
SpecScroll == InitScroll /\ [][NextScroll]_vars

\* from init_stars() on, with no event arriving
NextStarField ==
  \/ Prepare(RandZ, RandSpeed)
  \/ CreateTextTexture(MainTextWidths)
  \/ Cleanup
  \/ LoopInit(SteadyWork)
  \/ LoopEnter(MaxStarFrames)
  \/ Body(SteadyWork)
SpecStars == InitStarField /\ [][NextStarField]_vars

NextLimiter == LoopEnter(MaxLimiterFrames) \/ Body(WorkDurations)
SpecLimiter == InitLimiter /\ [][NextLimiter]_vars

TypeOK ==
  /\ is_running \in {NotDeclared, 0, 1}
  /\ blendMode \in {"NONE", "BLEND"}
  /\ \A t \in {now, last_tick, current_tick, delayArg} :
       t.hi \in 0..(Limb - 1) /\ t.lo \in 0..(Limb - 1)
  /\ Len(eventQueue) <= MaxEvents
\* ---- claims ----

AtTickEnd == pc = "loop_test" /\ frame >= 1

\* C3 as stated: from offset 800 with text width 400 the offset goes down by
\* 1.5 per tick and is reset to 800 at tick 800.
C3_Original ==
  (textW = 400 /\ AtTickEnd) =>
     /\ frame < 800 => scrollX = (SCREEN_WIDTH * XScale) - ScrollStep * frame
     /\ frame = 800 => scrollX = SCREEN_WIDTH * XScale

\* C3 amended: from offset 800 with text width 400 the offset is exactly -400
\* after 800 ticks, which is not below -400, so no reset happens there; it
\* passes below -400 on tick 801 and is reset to 800 at that tick.
C3_ResetAtTick801 ==
  (textW = 400 /\ AtTickEnd) =>
     /\ frame <= 800 => scrollX = (SCREEN_WIDTH * XScale) - ScrollStep * frame
     /\ frame = 800 => scrollX = -(400 * XScale)
     /\ frame = 801 => scrollX = SCREEN_WIDTH * XScale

C3_Witness ==
  textW = 400 /\ AtTickEnd /\ frame = 801 /\ scrollX = SCREEN_WIDTH * XScale

\* C5: the scroll update of a tick lowers scrollX by exactly 1.5, unless that
\* would put it below -textW, in which case scrollX becomes exactly
\* SCREEN_WIDTH; the update after a reset steps down from 800 again, and no
\* other step of the tick touches scrollX.
C5_ScrollStepOrReset ==
  [][ /\ pc = "update_scroll" =>
           \/ /\ scrollX' = scrollX - ScrollStep
              /\ scrollX' >= -(textW * XScale)
              /\ scrollX' < scrollX
           \/ /\ scrollX - ScrollStep < -(textW * XScale)
              /\ scrollX' = SCREEN_WIDTH * XScale
      /\ (pc = "update_scroll" /\ scrollX = SCREEN_WIDTH * XScale) =>
           scrollX' = (SCREEN_WIDTH * XScale) - ScrollStep
      /\ pc # "update_scroll" => scrollX' = scrollX ]_vars

C5_Witness ==
  textW = 0 /\ frame = 535 /\ AtTickEnd
    /\ scrollX = (SCREEN_WIDTH * XScale) - ScrollStep

InStarRange(s) == s.z > 0 /\ s.z <= STAR_SPREAD * ZScale

\* init_stars() has run
StarsInitialised == musicPlaying \/ cleanupCalls > 0

\* number of update_stars() calls made so far
StarUpdates ==
  IF frame = 0 THEN 0
  ELSE IF \E k \in DOMAIN trace : trace[k] = "update_stars" THEN frame
  ELSE frame - 1

\* C4 as stated: after init_stars() and any number of update_stars() calls
\* every star has 0 < z <= STAR_SPREAD.
C4_Original ==
  StarsInitialised => \A i \in DOMAIN stars : InStarRange(stars[i])

\* C4 amended: right after init_stars() every star has 0 <= z < STAR_SPREAD;
\* after at least one update_stars() call every star has 0 < z <= STAR_SPREAD,
\* a star whose z fell to 0 or below having been respawned at STAR_SPREAD.
C4_StarRange ==
  StarsInitialised =>
    \A i \in DOMAIN stars :
      IF StarUpdates = 0
      THEN stars[i].z >= 0 /\ stars[i].z < STAR_SPREAD * ZScale
      ELSE InStarRange(stars[i])

\* a star flew past the camera and was respawned, another is still on its way
C4_Witness ==
  /\ StarUpdates >= 2
  /\ \E i \in DOMAIN stars : stars[i].z = STAR_SPREAD * ZScale
  /\ \E i \in DOMAIN stars : stars[i].z > 0 /\ stars[i].z < 2 * ZScale

\* milliseconds from the end of the previous tick to the end of this one
TickDuration == work + delayArg.lo

\* C6 as stated: every tick after the first ends at least 16 ms after the
\* previous tick ended, and a tick whose own work took 16 ms or more does not
\* wait.
C6_Original ==
  (AtTickEnd /\ frame >= 2) =>
     /\ TickDuration >= FrameBudget
     /\ work >= FrameBudget => ~delayCalled

\* C10: whenever the frame limiter calls SDL_Delay, the Uint32 it passes is
\* between 1 and 16, also when the clock wrapped between last_tick and
\* current_tick.
C10_DelayArgInRange ==
  delayCalled => (delayArg.hi = 0 /\ delayArg.lo >= 1 /\ delayArg.lo <= FrameBudget)

\* SDL_Delay was called on a tick where the clock wrapped between the reading
\* kept in last_tick and the reading in current_tick
C10_Witness ==
  /\ AtTickEnd
  /\ delayCalled
  /\ delayArg.lo < FrameBudget
  /\ Less32(current_tick, Sub32(current_tick, Sub32(U32(FrameBudget), delayArg)))

\* C1 as stated: a polled quit event stops the loop in the same tick (no
\* later tick starts running), and once the quit event is polled neither the
\* stars nor scrollX nor time_counter advance any more.
C1_Original ==
  [][ quitPolled =>
        /\ is_running = 0
        /\ stars' = stars
        /\ scrollX' = scrollX
        /\ time_counter' = time_counter ]_vars

Acquired == {window, renderer, font, music}

\* C2 as stated: when main returns non-zero a message was printed and nothing
\* acquired is left unreleased.
C2_Original ==
  (pc = "done" /\ exitCode # 0) =>
     /\ messages >= 1
     /\ "live" \notin Acquired
     /\ "on" \notin {sdl, ttf, mix}

\* C7: the draw blend mode is BLEND only between render_raster_bar() setting
\* it and restoring it; at the frame clear, at render_stars() and at
\* render_scroller() it is NONE.
C7_BlendOnlyInRasterBar ==
  /\ pc \in {"clear", "render_stars", "render_scroller"} => blendMode = "NONE"
  /\ pc = "raster_fill" => blendMode = "BLEND"
  /\ blendMode = "BLEND" => pc \in {"raster_fill", "raster_restore"}

\* the scroller is about to be drawn, after the raster bar of the same tick
C7_Witness ==
  /\ pc = "render_scroller"
  /\ \E k \in DOMAIN trace : trace[k] = "raster_fill"
  /\ blendMode = "NONE"

SetupSucceeded ==
  /\ {window, renderer, font, music, textTexture} = {"live"}
  /\ {sdl, ttf, mix} = {"on"}
  /\ messages = 0

\* C8: is_running is 1 only after a fully successful setup; it goes to 0 only
\* by polling a quit event and never back; main returns 0 only from the
\* stopped loop, with the text texture destroyed before cleanup(), cleanup()
\* run once, and music, font, renderer and window each released once; and a
\* stopped loop does reach that return.
C8_Safety ==
  /\ is_running \in {NotDeclared, 0, 1}
  /\ (is_running = 1 /\ pc # "done") => SetupSucceeded
  /\ is_running = 0 => quitPolled
  /\ cleanupCalls <= 1
  /\ \A r \in Resources : released[r] <= 1
  /\ (pc = "cleanup" \/ (cleanupCalls = 1 /\ exitCode = 0)) =>
        textTexture = "destroyed"
  /\ (pc = "done" /\ exitCode = 0) =>
        /\ is_running = 0
        /\ cleanupCalls = 1
        /\ \A r \in Resources : released[r] = 1
        /\ "live" \notin Acquired
  /\ (pc = "done" /\ is_running = 0) => exitCode = 0

C8_Steps ==
  /\ is_running = 0 => is_running' = 0
  /\ (is_running = 1 /\ is_running' = 0) =>
        (pc = "poll" /\ eventQueue # << >> /\ Head(eventQueue) = "SDL_QUIT")
  /\ is_running' = 1 => (is_running = 1 \/ pc = "loop_init")

C8_TwoStateLoop ==
  /\ []C8_Safety
  /\ [][C8_Steps]_vars
  /\ (is_running = 0) ~> (pc = "done" /\ exitCode = 0)

C8_Witness ==
  pc = "done" /\ exitCode = 0 /\ is_running = 0 /\ cleanupCalls = 1

\* the steps of one tick, in the order the claim gives
TickOrder ==
  << "poll", "update_stars", "update_scroll", "update_time", "clear",
     "render_stars", "raster_blend", "raster_fill", "raster_restore",
     "render_scroller", "present", "get_ticks", "frame_limit" >>

IsPrefix(a, b) == Len(a) <= Len(b) /\ \A k \in DOMAIN a : a[k] = b[k]

\* C9: within a tick the steps run in the fixed order drain, stars, scroll,
\* time, clear, stars drawn, raster bar, scroller, present, throttle, none
\* skipped or repeated: the steps done so far are always a prefix of that
\* order, the updates start only from an empty event queue, and a finished
\* tick has done all of them, time_counter having advanced once per tick.
C9_Order ==
  /\ IsPrefix(trace, TickOrder)
  /\ AtTickEnd => (trace = TickOrder /\ time_counter = frame)
  /\ pc = "update_stars" => trace = << "poll" >>

C9_Steps ==
  (pc = "poll" /\ pc' # "poll") => (eventQueue = << >> /\ pc' = "update_stars")

C9_FixedTickOrder == []C9_Order /\ [][C9_Steps]_vars

\* a tick that drained two events has run to its end
C9_Witness ==
  AtTickEnd /\ frame = 2 /\ posted = 2 /\ eventQueue = << >> /\ trace = TickOrder
====
